---- MODULE Spec2Model ----
(***************************************************************************)
(* Model of the configuration engine of torrust-index (src/config/mod.rs): *)
(* the resolution pass Configuration::load_settings over the layered       *)
(* providers (TOML source, environment overrides, compiled defaults), the  *)
(* mandatory-option guard, the schema-version gate, and the Configuration  *)
(* handle, a tokio RwLock<Settings> read by concurrent tasks.              *)
(***************************************************************************)
EXTENDS Integers, Sequences, FiniteSets, TLC

VARIABLES
    env,          \* process environment: variable name -> raw text
    files,        \* file system: path -> TOML text of the file at that path
    info,         \* the Info handed to load_settings / load
    result,       \* what the last load_settings / load call returned
    handles,      \* the Configuration handles constructed so far (their Settings)
    lockReaders,  \* tasks holding the shared lock of handles[1]
    lockWriter,   \* tasks holding the exclusive lock of handles[1] (at most one)
    waiters,      \* FIFO queue of the tasks waiting for the lock
    pc,           \* per task: position in its accessor / write
    op,           \* per task: the operation it runs
    ret,          \* per task: the value its accessor copied out
    wassign,      \* per task: the assignments its writer makes through the guard
    widx,         \* per task: how many of them the writer has made
    committed     \* the document of handles[1] when the lock was last free of writers

vars == <<env, files, info, result, handles, lockReaders, lockWriter, waiters,
          pc, op, ret, wassign, widx, committed>>

----------------------------------------------------------------------------
(* Bounds *)

\* How many environment variables are set at once.
MaxOverrides == 1

\* How many Configuration handles are constructed in one run.
MaxHandles == 1

\* How many tasks use the shared handle.
NumTasks == 3

----------------------------------------------------------------------------
(* Values of the generic structured document (figment::value::Value) *)

Str(s)  == [kind |-> "str", v |-> s]
Num(s)  == [kind |-> "num", v |-> s]
Url(s)  == [kind |-> "url", v |-> s]
Bool(s) == [kind |-> "bool", v |-> s]
NoneVal == [kind |-> "none", v |-> ""]

EmptyDict == [p \in {} |-> NoneVal]

\* The option paths of the Settings document that the model follows.
SettingsPaths ==
    {"auth.user_claim_token_pepper", "logging.threshold", "metadata.schema_version",
     "tracker.token", "website.name", "net.base_url", "tracker.private", "tracker.url"}

VERSION_2 == "2.0.0"

LATEST_VERSION == "2.0.0"

CONFIG_OVERRIDE_PREFIX == "TORRUST_INDEX_CONFIG_OVERRIDE_"

\* Settings::default(): the compiled-in document.
DefaultSettings ==
    [p \in SettingsPaths |->
        CASE p = "auth.user_claim_token_pepper" -> Str("MaxVerstappenWC2021")
          [] p = "logging.threshold"            -> Str("info")
          [] p = "metadata.schema_version"      -> Str(LATEST_VERSION)
          [] p = "tracker.token"                -> Str("MyAccessToken")
          [] p = "website.name"                 -> Str("Torrust")
          [] p = "net.base_url"                 -> NoneVal
          [] p = "tracker.private"              -> Bool("false")
          [] p = "tracker.url"                  -> Url("udp://localhost:6969")]

\* The names of the Threshold enum, lower-cased by serde.
ThresholdNames == {"off", "error", "warn", "info", "debug", "trace"}

----------------------------------------------------------------------------
(* Info *)

None == [some |-> FALSE]
Some(x) == [some |-> TRUE, val |-> x]

\* Info::from_toml
from_toml(config_toml) == [config_toml |-> Some(config_toml), config_toml_path |-> ""]

----------------------------------------------------------------------------
(* Providers *)

\* Toml::string: parsing the text gives its dictionary, or an error.
TomlString(text) ==
    IF text.wellformed THEN [ok |-> TRUE, dict |-> text.dict]
                       ELSE [ok |-> FALSE, dict |-> EmptyDict]

\* Toml::file: a file that is not found is an empty provider, not an error.
TomlFile(path, fs) ==
    IF path \in DOMAIN fs THEN TomlString(fs[path])
                          ELSE [ok |-> TRUE, dict |-> EmptyDict]

\* The variables Env::prefixed(CONFIG_OVERRIDE_PREFIX) keeps, and the option path
\* each names: prefix stripped, CONFIG_OVERRIDE_SEPARATOR "__" read as ".",
\* lower-cased.
EnvKeyPath ==
    [n \in {"TORRUST_INDEX_CONFIG_OVERRIDE_AUTH__USER_CLAIM_TOKEN_PEPPER",
            "TORRUST_INDEX_CONFIG_OVERRIDE_LOGGING__THRESHOLD",
            "TORRUST_INDEX_CONFIG_OVERRIDE_METADATA__SCHEMA_VERSION",
            "TORRUST_INDEX_CONFIG_OVERRIDE_TRACKER__TOKEN",
            "TORRUST_INDEX_CONFIG_OVERRIDE_WEBSITE__NAME",
            "TORRUST_INDEX_CONFIG_OVERRIDE_NET__BASE_URL"} |->
        CASE n = "TORRUST_INDEX_CONFIG_OVERRIDE_AUTH__USER_CLAIM_TOKEN_PEPPER"
                 -> "auth.user_claim_token_pepper"
          [] n = "TORRUST_INDEX_CONFIG_OVERRIDE_LOGGING__THRESHOLD" -> "logging.threshold"
          [] n = "TORRUST_INDEX_CONFIG_OVERRIDE_METADATA__SCHEMA_VERSION"
                 -> "metadata.schema_version"
          [] n = "TORRUST_INDEX_CONFIG_OVERRIDE_TRACKER__TOKEN" -> "tracker.token"
          [] n = "TORRUST_INDEX_CONFIG_OVERRIDE_WEBSITE__NAME" -> "website.name"
          [] n = "TORRUST_INDEX_CONFIG_OVERRIDE_NET__BASE_URL" -> "net.base_url"]

\* The value an environment variable's text parses to: a number when the text is
\* one, a string otherwise.
ParseEnvValue(raw) == IF raw \in {"7"} THEN Num(raw) ELSE Str(raw)

\* Env::prefixed(CONFIG_OVERRIDE_PREFIX).split(CONFIG_OVERRIDE_SEPARATOR)
EnvPrefixed(e) ==
    LET kept == {n \in DOMAIN e : n \in DOMAIN EnvKeyPath}
        paths == {EnvKeyPath[n] : n \in kept}
        NameOf(p) == CHOOSE n \in kept : EnvKeyPath[n] = p
    IN  [ok |-> TRUE, dict |-> [p \in paths |-> ParseEnvValue(e[NameOf(p)])]]

----------------------------------------------------------------------------
(* Figment: a dictionary, or the first provider error, which sticks *)

\* Figment::from
FigmentFrom(provider) ==
    IF provider.ok THEN [err |-> FALSE, dict |-> provider.dict]
                   ELSE [err |-> TRUE, dict |-> EmptyDict]

\* Figment::merge: on a conflict the incoming value replaces the present one.
FigmentMerge(fig, provider) ==
    IF fig.err \/ ~provider.ok
    THEN [err |-> TRUE, dict |-> EmptyDict]
    ELSE [err |-> FALSE,
          dict |-> [p \in DOMAIN fig.dict \cup DOMAIN provider.dict |->
                       IF p \in DOMAIN provider.dict THEN provider.dict[p]
                                                     ELSE fig.dict[p]]]

\* Figment::join: on a conflict the present value is kept.
FigmentJoin(fig, provider) ==
    IF fig.err \/ ~provider.ok
    THEN [err |-> TRUE, dict |-> EmptyDict]
    ELSE [err |-> FALSE,
          dict |-> [p \in DOMAIN fig.dict \cup DOMAIN provider.dict |->
                       IF p \in DOMAIN fig.dict THEN fig.dict[p]
                                                ELSE provider.dict[p]]]

\* Figment::find_value: an error when the figment holds one or the path has no value.
FindValueFails(fig, path) == fig.err \/ path \notin DOMAIN fig.dict

\* Serialized::defaults(Settings::default())
SerializedDefaults == [ok |-> TRUE, dict |-> DefaultSettings]

----------------------------------------------------------------------------
(* Schema Extractor: Figment::extract into the typed Settings *)

\* Url::parse followed by Url's Display: a URL of a special scheme with an empty
\* path gets the path "/".
UrlParse(s) ==
    CASE s \in {"http://localhost", "http://localhost/"} -> Some("http://localhost/")
      [] s \in {"http://localhost:7070", "http://localhost:7070/"}
                                                          -> Some("http://localhost:7070/")
      [] s \in {"udp://localhost:6969"}                   -> Some(s)
      [] OTHER                                            -> None

\* Deserializing the value at one path into the type of the Settings field there:
\* strings for the secrets, the site name and the version, a Threshold name,
\* Option<Url> for net.base_url, a bool for tracker.private and a Url, written as
\* a string, for tracker.url.
DeserializeField(path, value) ==
    CASE path = "logging.threshold" ->
            IF value.kind = "str" /\ value.v \in ThresholdNames THEN Some(value) ELSE None
      [] path = "net.base_url" ->
            IF value.kind = "none" THEN Some(NoneVal)
            ELSE IF value.kind = "str" /\ UrlParse(value.v).some
                 THEN Some(Url(UrlParse(value.v).val))
                 ELSE None
      [] path = "tracker.private" ->
            IF value.kind = "bool" THEN Some(value) ELSE None
      [] path = "tracker.url" ->
            IF value.kind \in {"str", "url"} /\ UrlParse(value.v).some
            THEN Some(Url(UrlParse(value.v).val))
            ELSE None
      [] OTHER ->
            IF value.kind = "str" THEN Some(value) ELSE None

\* The field at one path as serde reads it out of the dictionary: the value there
\* deserialized, or the field's #[serde(default = ..)] value when the path is
\* missing.
ExtractField(path, dict) ==
    IF path \in DOMAIN dict THEN DeserializeField(path, dict[path])
    ELSE Some(DefaultSettings[path])

\* Figment::extract::<Settings>
Extract(fig) ==
    IF fig.err THEN None
    ELSE IF \E p \in SettingsPaths : ~ExtractField(p, fig.dict).some
         THEN None
         ELSE Some([p \in SettingsPaths |-> ExtractField(p, fig.dict).val])

----------------------------------------------------------------------------
(* Results of the resolution pass *)

Ok(settings) == [kind |-> "Ok", settings |-> settings]
MissingMandatoryOption(path) == [kind |-> "MissingMandatoryOption", path |-> path]
ConfigError == [kind |-> "ConfigError"]
UnsupportedVersion(version) == [kind |-> "UnsupportedVersion", version |-> version]
Passed == [kind |-> "Passed"]

----------------------------------------------------------------------------
(* Configuration::check_mandatory_options *)

mandatory_options ==
    <<"auth.user_claim_token_pepper", "logging.threshold", "metadata.schema_version",
      "tracker.token">>

\* The loop over the list from position i on: the first probe that fails returns.
RECURSIVE CheckFrom(_, _, _)
CheckFrom(fig, options, i) ==
    IF i > Len(options) THEN Passed
    ELSE IF FindValueFails(fig, options[i]) THEN MissingMandatoryOption(options[i])
    ELSE CheckFrom(fig, options, i + 1)

\* Faulty variant: the list lacks its last entry.
check_mandatory_options_short(figment) ==
    CheckFrom(figment, SubSeq(mandatory_options, 1, Len(mandatory_options) - 1), 1)

check_mandatory_options(figment) == CheckFrom(figment, mandatory_options, 1)

----------------------------------------------------------------------------
(* Configuration::load_settings *)

\* Faulty variant: the overrides are joined, so the text wins a conflict.
UserFigment_joined(i, e, fs) ==
    IF i.config_toml.some
    THEN FigmentJoin(FigmentFrom(TomlString(i.config_toml.val)), EnvPrefixed(e))
    ELSE FigmentJoin(FigmentFrom(TomlFile(i.config_toml_path, fs)), EnvPrefixed(e))

\* Faulty variant: the file is read as well and the inline text is merged over it.
UserFigment_with_file(i, e, fs) ==
    IF i.config_toml.some
    THEN FigmentMerge(FigmentMerge(FigmentFrom(TomlFile(i.config_toml_path, fs)),
                                   TomlString(i.config_toml.val)),
                      EnvPrefixed(e))
    ELSE FigmentMerge(FigmentFrom(TomlFile(i.config_toml_path, fs)), EnvPrefixed(e))

\* The figment of what the user provides: the inline text when there is one,
\* the file otherwise, merged with the environment overrides.
UserFigment(i, e, fs) ==
    IF i.config_toml.some
    THEN FigmentMerge(FigmentFrom(TomlString(i.config_toml.val)), EnvPrefixed(e))
    ELSE FigmentMerge(FigmentFrom(TomlFile(i.config_toml_path, fs)), EnvPrefixed(e))

\* Faulty variant: the version is not compared.
VersionGate_open(settings) == Ok(settings)

\* The version gate on the extracted document.
VersionGate(settings) ==
    IF settings["metadata.schema_version"] # Str(VERSION_2)
    THEN UnsupportedVersion(settings["metadata.schema_version"].v)
    ELSE Ok(settings)

\* Faulty variant: the defaults are merged over what the user provides.
BuildSettings_defaults_win(figment) ==
    LET extracted == Extract(FigmentMerge(figment, SerializedDefaults))
    IN  IF ~extracted.some THEN ConfigError ELSE VersionGate(extracted.val)

\* Fill the missing options with the defaults, extract, check the version.
BuildSettings(figment) ==
    LET extracted == Extract(FigmentJoin(figment, SerializedDefaults))
    IN  IF ~extracted.some THEN ConfigError ELSE VersionGate(extracted.val)

\* Faulty variant: the document is extracted and its version compared before the guard
\* is consulted.
load_settings_extract_first(i, e, fs) ==
    LET figment == UserFigment(i, e, fs)
        built == BuildSettings(figment)
        checked == check_mandatory_options(figment)
    IN  IF built.kind \in {"ConfigError", "UnsupportedVersion"} THEN built
        ELSE IF checked # Passed THEN checked ELSE built

\* Configuration::load_settings: the guard on the user layers, then the defaults,
\* the extraction and the version gate.
load_settings(i, e, fs) ==
    LET figment == UserFigment(i, e, fs)
        checked == check_mandatory_options(figment)
    IN  IF checked # Passed THEN checked ELSE BuildSettings(figment)

----------------------------------------------------------------------------
(* Configuration::load and Configuration::default *)

\* Configuration::load: the `?` returns the error of load_settings; on success the
\* document goes into a new handle.
load(i, e, fs) == load_settings(i, e, fs)

\* Faulty variant: a failed load falls back to a handle of defaults.
HandlesAfterLoad_fallback(hs, out) ==
    IF out.kind = "Ok" THEN Append(hs, out.settings) ELSE Append(hs, DefaultSettings)

\* The handles after a call of load that returned `out`.
HandlesAfterLoad(hs, out) ==
    IF out.kind = "Ok" THEN Append(hs, out.settings) ELSE hs

\* impl Default for Configuration
ConfigurationDefault == DefaultSettings

----------------------------------------------------------------------------
(* The inputs of the resolution pass *)

Absent == [kind |-> "absent", v |-> ""]

\* The dictionary of the choices made path by path, without the absent ones.
DictOf(f) == [p \in {q \in DOMAIN f : f[q] # Absent} |-> f[p]]

Choices(pepper, threshold, version, token, name) ==
    [p \in SettingsPaths \ {"net.base_url", "tracker.private", "tracker.url"} |->
        CASE p = "auth.user_claim_token_pepper" -> pepper
          [] p = "logging.threshold"            -> threshold
          [] p = "metadata.schema_version"      -> version
          [] p = "tracker.token"                -> token
          [] p = "website.name"                 -> name]

\* The well-formed TOML documents: each option left out, given the value the
\* default document has, or given another value (of the wrong type for the pepper).
TomlDicts ==
    {DictOf(Choices(pepper, threshold, version, token, name)) :
        pepper \in {Absent, Str("MaxVerstappenWC2021"), Num("7")},
        threshold \in {Absent, Str("info")},
        version \in {Absent, Str("2.0.0"), Str("1.0.0")},
        token \in {Absent, Str("MyAccessToken"), Str("tokB")},
        name \in {Absent, Str("siteB")}}

Malformed == [wellformed |-> FALSE, dict |-> EmptyDict]

Text(dict) == [wellformed |-> TRUE, dict |-> dict]

Texts == {Text(d) : d \in TomlDicts} \cup {Malformed}

\* The text of the tests: the four mandatory options and nothing else.
MandatoryOnly ==
    Text(DictOf(Choices(Str("MaxVerstappenWC2021"), Str("info"), Str("2.0.0"),
                        Str("MyAccessToken"), Absent)))

\* The environment variables a run may set, each with the texts it may hold; the
\* last one lacks the prefix.
EnvChoices ==
    {<<"TORRUST_INDEX_CONFIG_OVERRIDE_AUTH__USER_CLAIM_TOKEN_PEPPER",
       "OVERRIDDEN AUTH SECRET KEY">>,
     <<"TORRUST_INDEX_CONFIG_OVERRIDE_LOGGING__THRESHOLD", "debug">>,
     <<"TORRUST_INDEX_CONFIG_OVERRIDE_METADATA__SCHEMA_VERSION", "2.0.0">>,
     <<"TORRUST_INDEX_CONFIG_OVERRIDE_METADATA__SCHEMA_VERSION", "1.0.0">>,
     <<"TORRUST_INDEX_CONFIG_OVERRIDE_TRACKER__TOKEN", "OVERRIDDEN API TOKEN">>,
     <<"TORRUST_INDEX_CONFIG_OVERRIDE_TRACKER__TOKEN", "7">>,
     <<"TORRUST_INDEX_CONFIG_OVERRIDE_WEBSITE__NAME", "siteE">>,
     <<"TORRUST_INDEX_CONFIG_OVERRIDE_NET__BASE_URL", "http://localhost">>,
     <<"TRACKER__TOKEN", "OVERRIDDEN API TOKEN">>}

\* The environment that sets the chosen variables.
EnvOf(chosen) ==
    [n \in {c[1] : c \in chosen} |-> (CHOOSE c \in chosen : c[1] = n)[2]]

Environments ==
    {EnvOf(chosen) : chosen \in
        {c \in SUBSET EnvChoices :
            /\ Cardinality(c) <= MaxOverrides
            /\ \A x, y \in c : x[1] = y[1] => x = y}}

InfoPaths == {"", "index.toml", "missing.toml"}

NoFiles == [p \in {} |-> Malformed]

FileAt(path, text) == [p \in {path} |-> text]

\* An Info with inline text beside a file system that holds no file or some
\* file, or an Info without inline text beside any file system.
Inputs ==
    {[info |-> [config_toml |-> Some(t), config_toml_path |-> p], files |-> fs] :
        t \in Texts, p \in InfoPaths,
        fs \in {NoFiles, FileAt("index.toml", MandatoryOnly)}}
    \cup
    {[info |-> [config_toml |-> None, config_toml_path |-> p], files |-> fs] :
        p \in InfoPaths,
        fs \in {NoFiles} \cup {FileAt("index.toml", t) : t \in Texts}}

----------------------------------------------------------------------------
(* The tasks that use the handle *)

Tasks == 1..NumTasks

NoCall == [call |-> "none", out |-> [kind |-> "none"]]

InitHandleState ==
    /\ result = NoCall
    /\ handles = <<>>
    /\ lockReaders = {}
    /\ lockWriter = {}
    /\ waiters = <<>>
    /\ pc = [t \in Tasks |-> "idle"]
    /\ op = [t \in Tasks |-> "none"]
    /\ ret = [t \in Tasks |-> None]
    /\ wassign = [t \in Tasks |-> <<>>]
    /\ widx = [t \in Tasks |-> 0]
    /\ committed = DefaultSettings

InitLoad ==
    /\ env \in Environments
    /\ \E in \in Inputs : info = in.info /\ files = in.files
    /\ InitHandleState

handleVars == <<lockReaders, lockWriter, waiters, pc, op, ret, wassign, widx>>

\* A call of Configuration::load_settings.
LoadSettings ==
    /\ result' = [call |-> "load_settings", out |-> load_settings(info, env, files)]
    /\ UNCHANGED <<env, files, info, handles, committed, handleVars>>

\* A call of Configuration::load.
Load ==
    LET out == load(info, env, files) IN
    /\ out.kind = "Ok" => Len(handles) < MaxHandles
    /\ result' = [call |-> "load", out |-> out]
    /\ handles' = HandlesAfterLoad(handles, out)
    /\ committed' = IF handles' # <<>> THEN handles'[1] ELSE committed
    /\ UNCHANGED <<env, files, info, handleVars>>

\* A call of Configuration::default().
Default ==
    /\ Len(handles) < MaxHandles
    /\ handles' = Append(handles, ConfigurationDefault)
    /\ committed' = handles'[1]
    /\ UNCHANGED <<env, files, info, result, handleVars>>

NextLoad == LoadSettings \/ Load \/ Default

SpecLoad == InitLoad /\ [][NextLoad]_vars

----------------------------------------------------------------------------
(* The handle: tokio::sync::RwLock<Settings>, fair, with a FIFO queue of waiters *)

ReadOps == {"get_all", "get_site_name", "get_api_base_url"}

\* Faulty variant: the shared lock is granted whatever the writer and the queue.
ReadGranted_unguarded(writer, queue) == TRUE

\* Faulty variant: the shared lock is granted past the tasks that wait in the queue.
ReadGranted_barging(writer, queue) == writer = {}

\* settings.read(): granted at once when no writer holds the lock and no task waits.
ReadGranted(writer, queue) == writer = {} /\ queue = <<>>

\* Faulty variant: the exclusive lock is granted while readers hold the shared lock.
WriteGranted_over_readers(readers, writer, queue) == writer = {} /\ queue = <<>>

\* settings.write(): granted at once when nobody holds the lock and no task waits.
WriteGranted(readers, writer, queue) == readers = {} /\ writer = {} /\ queue = <<>>

\* The waiters at the head of the queue that a release lets in, in queue order:
\* readers as long as no writer holds the lock, a writer once nobody holds it.
RECURSIVE GrantFromQueue(_, _, _)
GrantFromQueue(readers, writer, queue) ==
    IF queue = <<>> THEN [readers |-> readers, writer |-> writer, queue |-> queue]
    ELSE LET head == Head(queue) IN
         IF head.mode = "read" /\ writer = {}
         THEN GrantFromQueue(readers \cup {head.task}, writer, Tail(queue))
         ELSE IF head.mode = "write" /\ writer = {} /\ readers = {}
              THEN GrantFromQueue(readers, {head.task}, Tail(queue))
              ELSE [readers |-> readers, writer |-> writer, queue |-> queue]

\* The position of each task once the lock state is `lock`: a task let in holds
\* the lock from then on.
PcAfterGrant(lock, before) ==
    [t \in Tasks |->
        IF before[t] = "waiting" /\ t \in lock.readers THEN "reading"
        ELSE IF before[t] = "waiting" /\ t \in lock.writer THEN "writing"
        ELSE before[t]]

\* Faulty variant: get_api_base_url gives the URL as it was configured, without Url's
\* own formatting.
UrlToString_raw(url) == IF url.v = "http://localhost/" THEN "http://localhost" ELSE url.v

\* Url::to_string
UrlToString(url) == url.v

\* What each accessor copies out of the document under the shared lock.
Projection(o, settings) ==
    CASE o = "get_all"          -> Some(settings)
      [] o = "get_site_name"    -> Some(settings["website.name"].v)
      [] o = "get_api_base_url" ->
            IF settings["net.base_url"].kind = "none" THEN None
            ELSE Some(UrlToString(settings["net.base_url"]))

\* The writers of the handle: the one that sets the base URL, and the one that
\* makes the tracker private and gives it a UDP URL.
Writers == {"set_base_url", "set_private_udp_tracker"}

\* The assignments each writer makes through the write guard, in program order;
\* every other field of the document is left as it is.
Assignments(w) ==
    CASE w = "set_base_url" ->
            <<[path |-> "net.base_url", value |-> Url(UrlParse("http://localhost").val)]>>
      [] w = "set_private_udp_tracker" ->
            <<[path |-> "tracker.private", value |-> Bool("true")],
              [path |-> "tracker.url", value |-> Url(UrlParse("udp://localhost:6969").val)]>>

\* An accessor calls settings.read().await.
ReadRequest(t, o) ==
    /\ Len(handles) >= 1
    /\ pc[t] = "idle"
    /\ op' = [op EXCEPT ![t] = o]
    /\ ret' = [ret EXCEPT ![t] = None]
    /\ IF ReadGranted(lockWriter, waiters)
       THEN /\ lockReaders' = lockReaders \cup {t}
            /\ pc' = [pc EXCEPT ![t] = "reading"]
            /\ UNCHANGED waiters
       ELSE /\ waiters' = Append(waiters, [task |-> t, mode |-> "read"])
            /\ pc' = [pc EXCEPT ![t] = "waiting"]
            /\ UNCHANGED lockReaders
    /\ UNCHANGED <<env, files, info, result, handles, lockWriter, wassign, widx, committed>>

\* The accessor copies the document, or its projection, under the shared lock.
Copy(t) ==
    /\ pc[t] = "reading"
    /\ ret' = [ret EXCEPT ![t] = Projection(op[t], handles[1])]
    /\ pc' = [pc EXCEPT ![t] = "copied"]
    /\ UNCHANGED <<env, files, info, result, handles, lockReaders, lockWriter, waiters,
                   op, wassign, widx, committed>>

\* Faulty variant: the accessor returns and the read guard is kept.
ReadReturn_keeps_guard(t) ==
    /\ pc[t] = "copied"
    /\ pc' = [pc EXCEPT ![t] = "idle"]
    /\ op' = [op EXCEPT ![t] = "none"]
    /\ ret' = [ret EXCEPT ![t] = None]
    /\ UNCHANGED <<env, files, info, result, handles, lockReaders, lockWriter, waiters,
                   wassign, widx, committed>>

\* The accessor returns: the guard is dropped and the waiters at the head of the
\* queue are let in.
ReadReturn(t) ==
    /\ pc[t] = "copied"
    /\ LET lock == GrantFromQueue(lockReaders \ {t}, lockWriter, waiters) IN
        /\ lockReaders' = lock.readers
        /\ lockWriter' = lock.writer
        /\ waiters' = lock.queue
        /\ pc' = PcAfterGrant(lock, [pc EXCEPT ![t] = "idle"])
    /\ op' = [op EXCEPT ![t] = "none"]
    /\ ret' = [ret EXCEPT ![t] = None]
    /\ UNCHANGED <<env, files, info, result, handles, wassign, widx, committed>>

\* The writer `w` calls settings.write().await.
WriteRequest(t, w) ==
    /\ Len(handles) >= 1
    /\ pc[t] = "idle"
    /\ op' = [op EXCEPT ![t] = "write"]
    /\ wassign' = [wassign EXCEPT ![t] = Assignments(w)]
    /\ widx' = [widx EXCEPT ![t] = 0]
    /\ IF WriteGranted(lockReaders, lockWriter, waiters)
       THEN /\ lockWriter' = {t}
            /\ pc' = [pc EXCEPT ![t] = "writing"]
            /\ UNCHANGED waiters
       ELSE /\ waiters' = Append(waiters, [task |-> t, mode |-> "write"])
            /\ pc' = [pc EXCEPT ![t] = "waiting"]
            /\ UNCHANGED lockWriter
    /\ UNCHANGED <<env, files, info, result, handles, lockReaders, ret, committed>>

\* The writer assigns the next field through the write guard.
Assign(t) ==
    /\ pc[t] = "writing"
    /\ widx[t] < Len(wassign[t])
    /\ LET a == wassign[t][widx[t] + 1] IN
        handles' = [handles EXCEPT ![1] = [@ EXCEPT ![a.path] = a.value]]
    /\ widx' = [widx EXCEPT ![t] = @ + 1]
    /\ UNCHANGED <<env, files, info, result, lockReaders, lockWriter, waiters, pc, op,
                   ret, wassign, committed>>

\* The writer drops the write guard and the waiters at the head of the queue are
\* let in.
WriteRelease(t) ==
    /\ pc[t] = "writing"
    /\ widx[t] = Len(wassign[t])
    /\ LET lock == GrantFromQueue(lockReaders, lockWriter \ {t}, waiters) IN
        /\ lockReaders' = lock.readers
        /\ lockWriter' = lock.writer
        /\ waiters' = lock.queue
        /\ pc' = PcAfterGrant(lock, [pc EXCEPT ![t] = "idle"])
    /\ op' = [op EXCEPT ![t] = "none"]
    /\ widx' = [widx EXCEPT ![t] = 0]
    /\ wassign' = [wassign EXCEPT ![t] = <<>>]
    /\ committed' = handles[1]
    /\ UNCHANGED <<env, files, info, result, handles, ret>>

\* The Info the shared handle is loaded from: the mandatory options, a site name
\* and the URL of an HTTP tracker.
HandleInfo ==
    from_toml(Text(("tracker.url" :> Str("http://localhost:7070")) @@
                   DictOf(Choices(Str("MaxVerstappenWC2021"), Str("info"), Str("2.0.0"),
                                  Str("MyAccessToken"), Str("siteB")))))

\* The shared handle has been constructed, by Configuration::default() or by
\* Configuration::load, and no task has used it yet.
InitHandle ==
    /\ env = [n \in {} |-> ""]
    /\ files = NoFiles
    /\ info = HandleInfo
    /\ result = NoCall
    /\ handles \in {<<ConfigurationDefault>>,
                    HandlesAfterLoad(<<>>, load(HandleInfo, env, files))}
    /\ committed = handles[1]
    /\ lockReaders = {}
    /\ lockWriter = {}
    /\ waiters = <<>>
    /\ pc = [t \in Tasks |-> "idle"]
    /\ op = [t \in Tasks |-> "none"]
    /\ ret = [t \in Tasks |-> None]
    /\ wassign = [t \in Tasks |-> <<>>]
    /\ widx = [t \in Tasks |-> 0]

NextHandle ==
    \/ \E t \in Tasks, o \in ReadOps : ReadRequest(t, o)
    \/ \E t \in Tasks : Copy(t)
    \/ \E t \in Tasks : ReadReturn(t)
    \/ \E t \in Tasks, w \in Writers : WriteRequest(t, w)
    \/ \E t \in Tasks : Assign(t)
    \/ \E t \in Tasks : WriteRelease(t)

SpecHandle == InitHandle /\ [][NextHandle]_vars

\* The next step of an accessor that holds the shared lock: the copy, the return.
\* Neither awaits anything.
ReaderStep(t) == Copy(t) \/ ReadReturn(t)

\* The next step of a writer that holds the exclusive lock: an assignment, the
\* drop of the guard. Neither awaits anything.
WriterStep(t) == Assign(t) \/ WriteRelease(t)

\* The handle under a scheduler that lets every task that holds the lock run on:
\* the code between acquiring a guard and dropping it has no await point.
SpecHandleFair ==
    /\ InitHandle
    /\ [][NextHandle]_vars
    /\ \A t \in Tasks : WF_vars(ReaderStep(t)) /\ WF_vars(WriterStep(t))

----------------------------------------------------------------------------
(* What the claims speak of *)

\* load_settings has returned, and `result` holds what it returned.
Resolved == result.call = "load_settings"

\* The text the Info selects: the inline text, or the file at the path if any.
SourceText ==
    IF info.config_toml.some THEN info.config_toml
    ELSE IF info.config_toml_path \in DOMAIN files
         THEN Some(files[info.config_toml_path])
         ELSE None

\* The source can be read as a document: its text is well-formed and, when it is a
\* file, the file exists.
SourceReadable == SourceText.some /\ SourceText.val.wellformed

TextSupplies(path) == SourceReadable /\ path \in DOMAIN SourceText.val.dict

\* The override variables that target the path.
OverridesOf(path) ==
    {n \in DOMAIN env : n \in DOMAIN EnvKeyPath /\ EnvKeyPath[n] = path}

EnvSupplies(path) == OverridesOf(path) # {}

Supplied(path) == TextSupplies(path) \/ EnvSupplies(path)

MandatoryPaths == {mandatory_options[i] : i \in 1..Len(mandatory_options)}

\* The position of a mandatory path in the fixed list.
Position(path) == CHOOSE i \in 1..Len(mandatory_options) : mandatory_options[i] = path

\* The value the user layers give the path, the override before the text.
UserValue(path) ==
    IF EnvSupplies(path)
    THEN ParseEnvValue(env[CHOOSE n \in OverridesOf(path) : TRUE])
    ELSE SourceText.val.dict[path]

----------------------------------------------------------------------------
(* C1 *)

\* C1 as stated: every mandatory path M that neither the text nor an override
\* supplies makes load_settings fail with MissingMandatoryOption{M}.
C1_MissingNamesEveryPath ==
    Resolved =>
        \A M \in MandatoryPaths :
            ~Supplied(M) => result.out = MissingMandatoryOption(M)

\* C1, amended: a mandatory path M that neither the text nor an override supplies
\* makes load_settings fail with MissingMandatoryOption, whatever the default for
\* M; the error names M or a mandatory path before M in the list, and it names M
\* when the source is readable and every path before M is supplied.
C1_MandatoryBeforeDefault ==
    Resolved =>
        \A M \in MandatoryPaths :
            ~Supplied(M) =>
                /\ result.out.kind = "MissingMandatoryOption"
                /\ result.out.path \in MandatoryPaths
                /\ Position(result.out.path) <= Position(M)
                /\ M \in DOMAIN DefaultSettings
                /\ ( /\ SourceText.some => SourceText.val.wellformed
                     /\ \A E \in MandatoryPaths : Position(E) < Position(M) => Supplied(E) )
                   => result.out.path = M

\* The inline text leaves out only tracker.token, and the error names it.
C1_Witness ==
    /\ Resolved
    /\ info.config_toml.some
    /\ \A M \in MandatoryPaths : Supplied(M) <=> M # "tracker.token"
    /\ result.out = MissingMandatoryOption("tracker.token")

----------------------------------------------------------------------------
(* C2 *)

\* C2: when load_settings succeeds, the value at every path an override targets is
\* the override's value, as the field's type reads it, and not the conflicting
\* value of the text.
C2_OverridePrecedence ==
    (Resolved /\ result.out.kind = "Ok") =>
        \A P \in SettingsPaths :
            EnvSupplies(P) =>
                /\ DeserializeField(P, UserValue(P)).some
                /\ result.out.settings[P] = DeserializeField(P, UserValue(P)).val
                /\ (TextSupplies(P) /\ SourceText.val.dict[P] # UserValue(P))
                      => result.out.settings[P] # SourceText.val.dict[P]
                /\ DefaultSettings[P] # DeserializeField(P, UserValue(P)).val
                      => result.out.settings[P] # DefaultSettings[P]

\* The text gives tracker.token, an override gives another token, and the
\* resolved token is the override's.
C2_Witness ==
    /\ Resolved
    /\ result.out.kind = "Ok"
    /\ TextSupplies("tracker.token")
    /\ SourceText.val.dict["tracker.token"] = Str("MyAccessToken")
    /\ EnvSupplies("tracker.token")
    /\ result.out.settings["tracker.token"] = Str("OVERRIDDEN API TOKEN")

----------------------------------------------------------------------------
(* C3 *)

\* C3: an input that passes the guard and deserializes is returned exactly when
\* its schema version is "2.0.0", and fails with UnsupportedVersion carrying its
\* version otherwise; every document returned has schema version "2.0.0".
C3_VersionGate ==
    Resolved =>
        /\ result.out.kind \notin {"MissingMandatoryOption", "ConfigError"} =>
              IF UserValue("metadata.schema_version") = Str("2.0.0")
              THEN result.out.kind = "Ok"
              ELSE result.out = UnsupportedVersion(UserValue("metadata.schema_version").v)
        /\ result.out.kind = "Ok" =>
              result.out.settings["metadata.schema_version"] = Str("2.0.0")

\* Version "1.0.0" with every other option as in the default document is refused.
C3_Witness ==
    /\ Resolved
    /\ result.out = UnsupportedVersion("1.0.0")
    /\ \A P \in MandatoryPaths \ {"metadata.schema_version"} :
          Supplied(P) /\ UserValue(P) = DefaultSettings[P]

----------------------------------------------------------------------------
(* C5 *)

\* The file systems and paths an Info with inline text could stand beside.
OtherFileSystems ==
    {NoFiles} \cup
    {FileAt(p, t) : p \in {"index.toml", "missing.toml"},
                    t \in {MandatoryOnly, Malformed, Text(EmptyDict)}}

\* C5: with inline text in the Info, load_settings returns the same for every
\* file path and every file system.
C5_InlineExclusive ==
    (Resolved /\ info.config_toml.some) =>
        \A p \in InfoPaths, fs \in OtherFileSystems :
            load_settings([config_toml |-> info.config_toml, config_toml_path |-> p],
                          env, fs) = result.out

\* The inline text leaves out tracker.token, the path names an existing file that
\* gives it, and the result is still the missing token.
C5_Witness ==
    /\ Resolved
    /\ info.config_toml.some
    /\ info.config_toml_path \in DOMAIN files
    /\ "tracker.token" \in DOMAIN files[info.config_toml_path].dict
    /\ result.out = MissingMandatoryOption("tracker.token")

----------------------------------------------------------------------------
(* C6 *)

\* The user layers supply the four mandatory paths and nothing else.
OnlyMandatorySupplied == \A P \in SettingsPaths : Supplied(P) <=> P \in MandatoryPaths

\* C6 as stated: the four mandatory paths and nothing else make load_settings
\* succeed with the defaults at every other path.
C6_OnlyMandatorySucceeds ==
    (Resolved /\ OnlyMandatorySupplied) =>
        /\ result.out.kind = "Ok"
        /\ \A P \in SettingsPaths :
              ~Supplied(P) => result.out.settings[P] = DefaultSettings[P]

\* C6, amended: when the user layers supply the four mandatory paths and nothing
\* else, the source text parses, the supplied values have the types of their
\* fields and the schema version is "2.0.0", load_settings succeeds, every path
\* the user layers do not supply holds its default and every mandatory path holds
\* the supplied value; from the inline text and from the file alike.
C6_DefaultsFillTheRest ==
    ( /\ Resolved
      /\ OnlyMandatorySupplied
      /\ SourceText.some => SourceText.val.wellformed
      /\ \A M \in MandatoryPaths : DeserializeField(M, UserValue(M)).some
      /\ UserValue("metadata.schema_version") = Str(VERSION_2) ) =>
        /\ result.out.kind = "Ok"
        /\ \A P \in SettingsPaths :
              result.out.settings[P] =
                  IF Supplied(P) THEN DeserializeField(P, UserValue(P)).val
                                 ELSE DefaultSettings[P]

\* The file holds the four mandatory options of the test, and the resolved
\* document is the default document.
C6_Witness ==
    /\ Resolved
    /\ ~info.config_toml.some
    /\ SourceText = Some(MandatoryOnly)
    /\ env = [n \in {} |-> ""]
    /\ result.out = Ok(DefaultSettings)

----------------------------------------------------------------------------
(* C7 *)

\* The mandatory paths the user layers do not supply.
MissingPaths == {M \in MandatoryPaths : ~Supplied(M)}

\* The missing path that comes first in the list.
FirstMissing ==
    CHOOSE M \in MissingPaths : \A N \in MissingPaths : Position(M) <= Position(N)

\* C7: with several mandatory paths missing from the user layers, the error is
\* MissingMandatoryOption naming the first of them in list order.
C7_FirstMissingNamed ==
    (Resolved /\ Cardinality(MissingPaths) >= 2) =>
        result.out = MissingMandatoryOption(FirstMissing)

----------------------------------------------------------------------------
(* C9 *)

\* C9: a source that cannot be read as a document (no file at the path, or
\* malformed text) makes load_settings fail with ConfigError.
C9_UnreadableSourceIsConfigError ==
    (Resolved /\ ~SourceReadable) => result.out = ConfigError

----------------------------------------------------------------------------
(* C8 *)

\* C8: a call of load whose resolution pass fails returns the error and leaves
\* the handles as they were, and a handle is only ever constructed holding the
\* default document or the document a fully successful load_settings returned.
C8_NoPartialAdoption ==
    [][ /\ (result' # result /\ result'.call = "load" /\ result'.out.kind # "Ok")
            => /\ handles' = handles
               /\ result'.out = load_settings(info, env, files)
        /\ Len(handles') # Len(handles)
            => \/ handles' = Append(handles, DefaultSettings)
               \/ /\ result'.call = "load"
                  /\ result'.out.kind = "Ok"
                  /\ result'.out = load_settings(info, env, files)
                  /\ handles' = Append(handles, result'.out.settings)
      ]_vars

\* load has failed on an unsupported version while a handle exists, and the
\* handle still holds its document.
C8_Witness ==
    /\ result.call = "load"
    /\ result.out.kind = "UnsupportedVersion"
    /\ handles = <<DefaultSettings>>

----------------------------------------------------------------------------
(* C4 *)

\* The document with every one of the assignments made.
Assigned(doc, assignments) ==
    [p \in DOMAIN doc |->
        IF \E i \in 1..Len(assignments) : assignments[i].path = p
        THEN assignments[CHOOSE i \in 1..Len(assignments) : assignments[i].path = p].value
        ELSE doc[p]]

\* C4: every snapshot get_all copies out is the whole document of before the
\* write in progress or the whole document with all of that writer's assignments
\* made, never one with only some of them.
C4_SnapshotsAreWhole ==
    \A t \in Tasks :
        (pc[t] = "copied" /\ op[t] = "get_all") =>
            \/ ret[t] = Some(committed)
            \/ \E w \in lockWriter : ret[t] = Some(Assigned(committed, wassign[w]))

\* Two readers hold the shared lock, one with its snapshot taken, while a writer
\* with two assignments to make, both of which change the document, waits.
C4_Witness ==
    \E r1, r2, w \in Tasks :
        /\ r1 # r2
        /\ pc[r1] = "copied" /\ op[r1] = "get_all"
        /\ pc[r2] \in {"reading", "copied"}
        /\ pc[w] = "waiting" /\ op[w] = "write"
        /\ Len(wassign[w]) = 2
        /\ \A i \in 1..2 : committed[wassign[w][i].path] # wassign[w][i].value
        /\ ret[r1] = Some(committed)

----------------------------------------------------------------------------
(* C10 *)

\* C10: each accessor returns its projection of the document the handle holds:
\* the site name "Torrust" and no base URL on a handle of defaults, and the
\* base URL a writer has set, in Url's own formatting, once the writer has
\* released the lock.
C10_AccessorsProjectTheDocument ==
    \A t \in Tasks :
        pc[t] = "copied" =>
            /\ op[t] = "get_all" => ret[t] = Some(committed)
            /\ op[t] = "get_site_name" =>
                  /\ ret[t] = Some(committed["website.name"].v)
                  /\ committed = ConfigurationDefault => ret[t] = Some("Torrust")
            /\ op[t] = "get_api_base_url" =>
                  /\ committed = ConfigurationDefault => ret[t] = None
                  /\ committed["net.base_url"].kind = "none" <=> ret[t] = None
                  /\ committed["net.base_url"] = Url(UrlParse("http://localhost").val)
                        => ret[t] = Some("http://localhost/")

\* A writer has set the base URL on a handle and released the lock, and
\* get_api_base_url has copied the new value out.
C10_Witness ==
    \E t \in Tasks :
        /\ pc[t] = "copied"
        /\ op[t] = "get_api_base_url"
        /\ lockWriter = {}
        /\ handles[1]["net.base_url"] = Url("http://localhost/")
        /\ ret[t] = Some("http://localhost/")

----------------------------------------------------------------------------
(* C12 *)

\* C12: at most one writer holds the lock, no reader holds it while a writer
\* does, so that a writer holds it only with zero readers; the holders are the
\* tasks inside their critical sections, any number of readers together.
C12_ReadersXorOneWriter ==
    /\ Cardinality(lockWriter) <= 1
    /\ lockWriter # {} => Cardinality(lockReaders) = 0
    /\ lockReaders = {t \in Tasks : pc[t] \in {"reading", "copied"}}
    /\ lockWriter = {t \in Tasks : pc[t] = "writing"}

\* Two readers hold the shared lock together and a writer that asked for the
\* exclusive lock has not acquired it.
C12_Witness ==
    \E r1, r2, w \in Tasks :
        /\ r1 # r2
        /\ {r1, r2} \subseteq lockReaders
        /\ pc[w] = "waiting" /\ op[w] = "write"
        /\ lockWriter = {}

----------------------------------------------------------------------------
(* C13 *)

\* A value the user layers supply cannot be read as the type of its field.
TypeMismatch ==
    \E P \in SettingsPaths : Supplied(P) /\ ~DeserializeField(P, UserValue(P)).some

\* The user layers declare a schema version other than the supported one.
DeclaresUnsupportedVersion ==
    /\ Supplied("metadata.schema_version")
    /\ UserValue("metadata.schema_version") # Str(VERSION_2)

\* C13: whenever a mandatory path is missing from the user layers, load_settings
\* returns MissingMandatoryOption naming a mandatory path, and neither
\* ConfigError nor UnsupportedVersion, also when the input has a value of the
\* wrong type or declares an unsupported schema version.
C13_GuardBeforeExtraction ==
    (Resolved /\ MissingPaths # {}) =>
        /\ result.out.kind = "MissingMandatoryOption"
        /\ result.out.kind \notin {"ConfigError", "UnsupportedVersion"}
        /\ result.out.path \in MandatoryPaths

\* The text gives a number for the pepper and schema version "1.0.0" and omits
\* tracker.token: the outcome is the missing token, not the other two failures.
C13_Witness ==
    /\ Resolved
    /\ SourceReadable
    /\ MissingPaths = {"tracker.token"}
    /\ TypeMismatch
    /\ UserValue("auth.user_claim_token_pepper") = Num("7")
    /\ DeclaresUnsupportedVersion
    /\ result.out = MissingMandatoryOption("tracker.token")

----------------------------------------------------------------------------
(* C14 *)

\* C14: a mandatory path M that the text omits and an override supplies counts
\* as present: load_settings does not fail with MissingMandatoryOption{M}, and
\* the document it returns has the override's value at M.
C14_OverrideCountsAsPresent ==
    Resolved =>
        \A M \in MandatoryPaths :
            (~TextSupplies(M) /\ EnvSupplies(M)) =>
                /\ result.out # MissingMandatoryOption(M)
                /\ result.out.kind = "Ok" =>
                      /\ DeserializeField(M, UserValue(M)).some
                      /\ result.out.settings[M] = DeserializeField(M, UserValue(M)).val

----------------------------------------------------------------------------
(* C15 *)

\* The writer waits in the queue for the exclusive lock.
WriterWaits(w) == pc[w] = "waiting" /\ op[w] = "write"

\* The reader waits in the queue for the shared lock.
ReaderWaits(r) == pc[r] = "waiting" /\ op[r] \in ReadOps

\* The reader waits in the queue at a place after the writer's.
QueuedBehind(r, w) ==
    \E i, j \in 1..Len(waiters) :
        /\ i < j
        /\ waiters[i] = [task |-> w, mode |-> "write"]
        /\ waiters[j] = [task |-> r, mode |-> "read"]

\* C15: a reader that asks for the shared lock while a writer waits is queued
\* behind that writer, also when readers hold the lock; it stays queued as long
\* as the writer waits, and once the writer holds the lock it is let in only by
\* the step in which the writer releases it.
C15_NewReadersWaitForPendingWriter ==
    [][\A r, w \in Tasks :
          /\ (WriterWaits(w) /\ pc[r] = "idle" /\ op'[r] \in ReadOps) =>
                /\ r \notin lockReaders'
                /\ QueuedBehind(r, w)'
          /\ (WriterWaits(w) /\ QueuedBehind(r, w)) =>
                /\ r \notin lockReaders'
                /\ ReaderWaits(r)'
                /\ WriterWaits(w)' => QueuedBehind(r, w)'
          /\ (w \in lockWriter /\ ReaderWaits(r) /\ r \in lockReaders') =>
                /\ w \notin lockWriter'
                /\ pc'[w] = "idle"
                /\ widx[w] = Len(wassign[w])
      ]_vars

\* An earlier reader still holds the shared lock, a writer waits, and a reader
\* that asked after the writer waits behind it.
C15_Witness ==
    \E r1, r2, w \in Tasks :
        /\ r1 \in lockReaders
        /\ lockWriter = {}
        /\ WriterWaits(w)
        /\ ReaderWaits(r2)
        /\ QueuedBehind(r2, w)

----------------------------------------------------------------------------
(* C16 *)

\* C16: when every task that holds the lock takes its next step, a writer that
\* waits for the exclusive lock acquires it: no writer waits for ever, and a
\* writer's wait ends only in the step that gives it the lock.
C16_WaitingWriterAcquires ==
    /\ \A w \in Tasks : []<>(~WriterWaits(w))
    /\ [][\A w \in Tasks :
             (WriterWaits(w) /\ ~WriterWaits(w)') =>
                 (w \in lockWriter' /\ lockReaders' = {})]_vars

\* A writer waits at the head of the queue while every other task is an accessor
\* that holds the shared lock with its copy taken and only its return to make.
C16_Witness ==
    \E w \in Tasks :
        /\ WriterWaits(w)
        /\ Head(waiters).task = w
        /\ \A t \in Tasks \ {w} : pc[t] = "copied" /\ t \in lockReaders

====
